---------------------------- MODULE Spec2Model ----------------------------
(***************************************************************************)
(* Model of capture_moments:                                               *)
(*   src/app.py    - the Flask request handlers and the session flag       *)
(*   src/awsint.py - AWSIntegration, the gateway over S3 / SES / SNS       *)
(*                                                                         *)
(* WebSpec drives the request handlers of app.py; Spec runs one method of  *)
(* an initialised AWSIntegration on inputs drawn in the initial state.     *)
(* app.py never imports awsint.py, so the two halves share no state.       *)
(***************************************************************************)
EXTENDS Integers, Sequences, FiniteSets, TLC

VARIABLES
    session,        \* app.py: the client's Flask session (a dict)
    history,        \* the requests served so far, oldest first
    response,       \* the response to the last request
    booking_store,  \* booking records persisted by the application
    bucket_name,    \* awsint.py: self.bucket_name
    s3_objects,     \* keys that exist in the bucket
    call,           \* the gateway invocation: method and arguments
    ret,            \* its outcome: pending, a returned value or a raised exception
    log             \* the client (SDK) calls made by the invocation, in order

vars == <<session, history, response, booking_store,
          bucket_name, s3_objects, call, ret, log>>

webVars == <<session, history, response, booking_store>>
awsVars == <<bucket_name, s3_objects, call, ret, log>>

-----------------------------------------------------------------------------
(* Bounds *)

MaxRequests == 3

-----------------------------------------------------------------------------
(* src/app.py *)

Routes == {"/", "/book", "/photographers", "/login", "/services",
           "/success", "/register", "/logout"}

Methods == {"GET", "POST"}

\* methods=[...] of each @app.route; a route without the argument takes GET
AllowedMethods(route) ==
    IF route \in {"/book", "/login", "/register"} THEN {"GET", "POST"} ELSE {"GET"}

\* values a login form may carry; login() never reads them
Credentials == {"right-password", "wrong-password"}

\* values a booking form may carry; book() never reads them
BookingForms == {"form-a", "form-b"}

EmptySession == <<>>

\* session.get('logged_in', False)
SessionGet(s) == IF "logged_in" \in DOMAIN s THEN s["logged_in"] ELSE FALSE

\* session['logged_in'] = True
SessionSetLoggedIn(s) == [k \in (DOMAIN s) \cup {"logged_in"} |-> TRUE]

\* variant: a logout that leaves the key in place
SessionPopKeepsKey(s) == s

\* session.pop('logged_in', None)
SessionPop(s) == [k \in (DOMAIN s) \ {"logged_in"} |-> s[k]]

Render(template, context) ==
    [status |-> 200, template |-> template, location |-> "", context |-> context]

Redirect(endpoint) ==
    [status |-> 302, template |-> "", location |-> endpoint, context |-> <<>>]

MethodNotAllowed ==
    [status |-> 405, template |-> "", location |-> "", context |-> <<>>]

\* One request served: the routing check, then the handler's effect.
Serve(route, method, form, newSession, newStore, resp) ==
    /\ Len(history) < MaxRequests
    /\ history' = Append(history, [route |-> route, method |-> method,
                                   form |-> IF method = "POST" THEN form ELSE "none"])
    /\ IF method \in AllowedMethods(route)
         THEN /\ session' = newSession
              /\ booking_store' = newStore
              /\ response' = resp
         ELSE /\ response' = MethodNotAllowed
              /\ UNCHANGED <<session, booking_store>>
    /\ UNCHANGED awsVars

home ==
    \E method \in Methods :
        Serve("/", method, "none", session, booking_store,
              Render("home.html", [logged_in |-> SessionGet(session)]))

book ==
    \E method \in Methods, form \in BookingForms :
        Serve("/book", method, form, session, booking_store,
              IF method = "POST"
                THEN Redirect("/success")
                ELSE Render("book.html", [photographers |-> "photographers"]))

photographer_page ==
    \E method \in Methods :
        Serve("/photographers", method, "none", session, booking_store,
              Render("photographers.html", [photographers |-> "photographers"]))

login ==
    \E method \in Methods, credentials \in Credentials :
        Serve("/login", method, credentials,
              IF method = "POST" THEN SessionSetLoggedIn(session) ELSE session,
              booking_store,
              IF method = "POST" THEN Redirect("/") ELSE Render("login.html", <<>>))

services ==
    \E method \in Methods :
        Serve("/services", method, "none", session, booking_store,
              Render("services.html", [services |-> "services_list"]))

success ==
    \E method \in Methods :
        Serve("/success", method, "none", session, booking_store,
              Render("success.html", <<>>))

register ==
    \E method \in Methods :
        Serve("/register", method, "none", session, booking_store,
              IF method = "POST" THEN Redirect("/login")
                                 ELSE Render("sign_up.html", <<>>))

logout ==
    \E method \in Methods :
        Serve("/logout", method, "none", SessionPop(session), booking_store, Redirect("/"))

\* the state before the first request: no session cookie, nothing stored
WebInit ==
    /\ session = EmptySession
    /\ history = <<>>
    /\ response = [status |-> 0, template |-> "", location |-> "", context |-> <<>>]
    /\ booking_store = {}

\* the gateway class is not instantiated by app.py
AwsAbsent ==
    /\ bucket_name = <<>>
    /\ s3_objects = {}
    /\ call = [op |-> "none"]
    /\ ret = [kind |-> "none"]
    /\ log = <<>>

WebNext ==
    \/ home
    \/ book
    \/ photographer_page
    \/ login
    \/ services
    \/ success
    \/ register
    \/ logout

WebStart == WebInit /\ AwsAbsent

WebSpec == WebStart /\ [][WebNext]_vars

-----------------------------------------------------------------------------
(* src/awsint.py: values *)

\* Strings are sequences of pieces (characters where the code looks at
\* characters); an f-string is the concatenation of its pieces.

None == [tag |-> "None"]
Bool(b) == [tag |-> "bool", v |-> b]
Str(s) == [tag |-> "str", v |-> s]

Return(v) == [kind |-> "return", value |-> v]
Raise(e) == [kind |-> "raise", exc |-> e]
Pending == [kind |-> "pending"]

\* what a client (SDK) call can do: complete, raise botocore's ClientError,
\* or raise anything else (NoCredentialsError, ParamValidationError, ...)
Outcomes == {"ok", "ClientError", "OtherError"}

DefaultBucket == <<"capture-moments-photos">>
RegionName == <<"ap-south-1">>
DefaultExpiration == 3600
DefaultSender == <<"noreply@capturemoments.in">>

\* os.environ.get('AWS_S3_BUCKET', 'capture-moments-photos')
Environments == {None, Str(<<"custom-bucket">>)}
BucketOf(env) == IF env.tag = "None" THEN DefaultBucket ELSE env.v

\* dict.get(key) and dict.get(key, default) on a dict held as a function
DictGet(d, k, default) == IF k \in DOMAIN d THEN d[k] ELSE default

\* the signed URL the S3 client hands back: opaque, it names what was signed
SignedUrl(bucket, key, expiration) ==
    [tag |-> "url", bucket |-> bucket, key |-> key, expires |-> expiration]

-----------------------------------------------------------------------------
(* upload_photo *)

LocalFiles == {"local_photo.jpg"}

\* metadata: omitted (None), a dict, or a value that is no dict
Metadatas ==
    { None,
      [tag |-> "dict", v |-> <<>>],
      [tag |-> "dict", v |-> [photographer |-> "Rajesh Kumar", event_type |-> "Wedding",
                              location |-> "Mumbai, Maharashtra"]],
      [tag |-> "dict", v |-> [photographer |-> "Rajesh Kumar"]],
      Str(<<"not-a-dict">>) }

\* `if metadata`: None and the empty dict are falsy
Truthy(m) == m.tag # "None" /\ ~(m.tag = "dict" /\ DOMAIN m.v = {})

S3Metadata(metadata) ==
    [upload_date |-> "now",
     photographer |-> IF Truthy(metadata)
                        THEN DictGet(metadata.v, "photographer", "Unknown") ELSE "Unknown",
     event_type |-> IF Truthy(metadata)
                      THEN DictGet(metadata.v, "event_type", "General") ELSE "General",
     location |-> IF Truthy(metadata)
                    THEN DictGet(metadata.v, "location", "India") ELSE "India"]

\* f"https://{self.bucket_name}.s3.{self.region_name}.amazonaws.com/{file_name}"
PhotoUrl(bucket, file_name) ==
    <<"https://">> \o bucket \o <<".s3.">> \o RegionName \o <<".amazonaws.com/">> \o file_name

\* what s3_client.upload_file can do on this path
UploadOutcomes(file_path) ==
    IF file_path \in LocalFiles THEN Outcomes ELSE {"FileNotFoundError"}

\* variant: the URL is built although upload_file raised ClientError
UploadPhotoReturnsUrlOnError(bucket, file_path, file_name, metadata, outcome) ==
    IF Truthy(metadata) /\ metadata.tag # "dict"
      THEN [ret |-> Return(None), log |-> <<>>, stored |-> {}]
      ELSE [ret |-> IF outcome \in {"ok", "ClientError"}
                      THEN Return(Str(PhotoUrl(bucket, file_name)))
                      ELSE Return(None),
            log |-> <<[api |-> "upload_file", Filename |-> file_path, Bucket |-> bucket,
                       Key |-> file_name, Metadata |-> S3Metadata(metadata),
                       outcome |-> outcome]>>,
            stored |-> IF outcome = "ok" THEN {file_name} ELSE {}]

UploadPhoto(bucket, file_path, file_name, metadata, outcome) ==
    IF Truthy(metadata) /\ metadata.tag # "dict"
      \* metadata.get raises AttributeError before the upload: the catch-all
      THEN [ret |-> Return(None), log |-> <<>>, stored |-> {}]
      ELSE [ret |-> IF outcome = "ok"
                      THEN Return(Str(PhotoUrl(bucket, file_name)))
                      ELSE Return(None),
            log |-> <<[api |-> "upload_file", Filename |-> file_path, Bucket |-> bucket,
                       Key |-> file_name, Metadata |-> S3Metadata(metadata),
                       outcome |-> outcome]>>,
            stored |-> IF outcome = "ok" THEN {file_name} ELSE {}]

-----------------------------------------------------------------------------
(* generate_presigned_url *)

PresignCall(bucket, file_name, expiration, outcome) ==
    [api |-> "generate_presigned_url", Bucket |-> bucket, Key |-> file_name,
     ExpiresIn |-> expiration, outcome |-> outcome]

\* variant: the expiration argument is not passed on to the client
GeneratePresignedUrlDefaultExpiry(bucket, file_name, expiration, outcome) ==
    [ret |-> CASE outcome = "ok" -> Return(SignedUrl(bucket, file_name, DefaultExpiration))
               [] outcome = "ClientError" -> Return(None)
               [] OTHER -> Raise(outcome),
     log |-> <<PresignCall(bucket, file_name, DefaultExpiration, outcome)>>]

\* only ClientError is caught: any other exception leaves the method
GeneratePresignedUrl(bucket, file_name, expiration, outcome) ==
    [ret |-> CASE outcome = "ok" -> Return(SignedUrl(bucket, file_name, expiration))
               [] outcome = "ClientError" -> Return(None)
               [] OTHER -> Raise(outcome),
     log |-> <<PresignCall(bucket, file_name, expiration, outcome)>>]

-----------------------------------------------------------------------------
(* create_photo_gallery *)

AccessCodeLen == 6

UpperTable ==
    [c \in {"w", "e", "d", "i", "n", "g"} |->
        CASE c = "w" -> "W" [] c = "e" -> "E" [] c = "d" -> "D"
          [] c = "i" -> "I" [] c = "n" -> "N" [] c = "g" -> "G"]

\* str.upper(), character by character
UpperChar(c) == IF c \in DOMAIN UpperTable THEN UpperTable[c] ELSE c
Upper(s) == [i \in 1..Len(s) |-> UpperChar(s[i])]

\* s[-n:]
LastChars(s, n) == IF Len(s) <= n THEN s ELSE SubSeq(s, Len(s) - n + 1, Len(s))

\* variant: event_id[:6] in place of event_id[-6:]
AccessCodeFromFirstChars(event_id) ==
    <<"C", "M">> \o Upper(IF Len(event_id) <= AccessCodeLen THEN event_id
                          ELSE SubSeq(event_id, 1, AccessCodeLen))

\* f"CM{event_id[-6:].upper()}"
AccessCode(event_id) == <<"C", "M">> \o Upper(LastChars(event_id, AccessCodeLen))

GalleryPrefix(event_id) == <<"galleries/">> \o event_id \o <<"/">>

\* variant: the entry is appended without the test
UrlTruthyEvenIfNone(url) == TRUE

\* `if url:` on what generate_presigned_url returned
UrlTruthy(url) == url.tag # "None"

\* The loop over photo_list from position i on. outcomes[i] is what the two
\* client calls for position i would do: <<asset, thumbnail>>.
\* st = [urls, log, raised]: the entries appended so far, the client calls
\* made so far, and the exception that left the loop (or "none").
RECURSIVE GalleryLoop(_, _, _, _, _, _)
GalleryLoop(bucket, event_id, photo_list, outcomes, i, st) ==
    IF i > Len(photo_list) \/ st.raised # "none" THEN st
    ELSE
      LET photo == photo_list[i]
          asset == GeneratePresignedUrl(bucket, GalleryPrefix(event_id) \o photo,
                                        DefaultExpiration, outcomes[i][1])
          thumb == GeneratePresignedUrl(bucket,
                       GalleryPrefix(event_id) \o <<"thumbnails/">> \o photo,
                       DefaultExpiration, outcomes[i][2])
      IN  IF asset.ret.kind = "raise"
            THEN [urls |-> st.urls, log |-> st.log \o asset.log, raised |-> asset.ret.exc]
          ELSE IF ~UrlTruthy(asset.ret.value)
            \* nothing appended, no thumbnail call
            THEN GalleryLoop(bucket, event_id, photo_list, outcomes, i + 1,
                     [urls |-> st.urls, log |-> st.log \o asset.log, raised |-> "none"])
          ELSE IF thumb.ret.kind = "raise"
            THEN [urls |-> st.urls, log |-> st.log \o asset.log \o thumb.log,
                  raised |-> thumb.ret.exc]
          ELSE GalleryLoop(bucket, event_id, photo_list, outcomes, i + 1,
                     [urls |-> Append(st.urls, [filename |-> photo,
                                                url |-> asset.ret.value,
                                                thumbnail_url |-> thumb.ret.value]),
                      log |-> st.log \o asset.log \o thumb.log,
                      raised |-> "none"])

\* variant: photo_count is len(photo_list) in place of len(gallery_urls)
CreatePhotoGalleryCountsInput(bucket, event_id, photo_list, outcomes) ==
    LET st == GalleryLoop(bucket, event_id, photo_list, outcomes, 1,
                          [urls |-> <<>>, log |-> <<>>, raised |-> "none"])
    IN  IF st.raised # "none"
          THEN [ret |-> Return(None), log |-> st.log]
          ELSE [ret |-> Return([tag |-> "dict",
                                event_id |-> event_id,
                                created_date |-> "now",
                                photo_count |-> Len(photo_list),
                                photos |-> st.urls,
                                access_code |-> AccessCode(event_id)]),
                log |-> st.log]

CreatePhotoGallery(bucket, event_id, photo_list, outcomes) ==
    LET st == GalleryLoop(bucket, event_id, photo_list, outcomes, 1,
                          [urls |-> <<>>, log |-> <<>>, raised |-> "none"])
    IN  IF st.raised # "none"
          \* except Exception: the whole gallery is given up
          THEN [ret |-> Return(None), log |-> st.log]
          ELSE [ret |-> Return([tag |-> "dict",
                                event_id |-> event_id,
                                created_date |-> "now",
                                photo_count |-> Len(st.urls),
                                photos |-> st.urls,
                                access_code |-> AccessCode(event_id)]),
                log |-> st.log]

-----------------------------------------------------------------------------
(* send_notification_email and the two mails built on it *)

EmailCall(recipient_email, subject, message, sender_email, outcome) ==
    [api |-> "send_email", Source |-> sender_email, To |-> recipient_email,
     Subject |-> subject,
     Html |-> [template |-> "capture-moments-html", message |-> message],
     Text |-> message, outcome |-> outcome]

\* variant: a failed send is tried once more
SendNotificationEmailRetries(recipient_email, subject, message, sender_email, outcome) ==
    LET c == EmailCall(recipient_email, subject, message, sender_email, outcome)
    IN  [ret |-> Return(Bool(outcome = "ok")),
         log |-> IF outcome = "ok" THEN <<c>> ELSE <<c, c>>]

SendNotificationEmail(recipient_email, subject, message, sender_email, outcome) ==
    [ret |-> Return(Bool(outcome = "ok")),
     log |-> <<EmailCall(recipient_email, subject, message, sender_email, outcome)>>]

SendBookingConfirmation(booking_details, outcome) ==
    IF booking_details.tag # "dict"
      \* booking_details.get raises AttributeError: the catch-all, nothing sent
      THEN [ret |-> Return(Bool(FALSE)), log |-> <<>>]
      ELSE LET d == booking_details.v
               photographer_name == DictGet(d, "photographer_name", "None")
               service_type == DictGet(d, "service_type", "None")
           IN  SendNotificationEmail(
                   DictGet(d, "client_email", "None"),
                   <<"Booking Confirmation - ", service_type, " with ", photographer_name>>,
                   [template |-> "booking-confirmed",
                    photographer_name |-> photographer_name,
                    service_type |-> service_type,
                    event_date |-> DictGet(d, "event_date", "None"),
                    location |-> DictGet(d, "location", "None")],
                   DefaultSender, outcome)

SendGalleryReadyNotification(client_email, gallery_info, outcome) ==
    IF gallery_info.tag # "dict"
      \* gallery_info.get raises AttributeError: the catch-all, nothing sent
      THEN [ret |-> Return(Bool(FALSE)), log |-> <<>>]
      ELSE SendNotificationEmail(
               client_email,
               <<"Your Photo Gallery is Ready!">>,
               [template |-> "gallery-ready",
                photo_count |-> DictGet(gallery_info, "photo_count", "None"),
                access_code |-> DictGet(gallery_info, "access_code", "None"),
                event_id |-> DictGet(gallery_info, "event_id", "None")],
               DefaultSender, outcome)

-----------------------------------------------------------------------------
(* send_sms_notification *)

CountryCode == <<"+", "9", "1">>

\* str.startswith
StartsWith(s, prefix) ==
    Len(s) >= Len(prefix) /\ SubSeq(s, 1, Len(prefix)) = prefix

\* variant: the prefix is added without the startswith test
NormalizePhoneAlwaysPrefixes(phone_number) == CountryCode \o phone_number

\* if not phone_number.startswith('+91'): phone_number = f'+91{phone_number}'
NormalizePhone(phone_number) ==
    IF ~StartsWith(phone_number, CountryCode)
      THEN CountryCode \o phone_number
      ELSE phone_number

SendSmsNotification(phone_number, message, outcome) ==
    [ret |-> Return(Bool(outcome = "ok")),
     log |-> <<[api |-> "publish", PhoneNumber |-> NormalizePhone(phone_number),
                Message |-> message, outcome |-> outcome]>>]

-----------------------------------------------------------------------------
(* Bounds and the inputs drawn from them *)

MaxPhotos == 2
MaxIdLen == 2
MaxPrefixLen == 3

SeqsUpTo(S, n) == UNION {[1..k -> S] : k \in 0..n}

FilePaths == {"local_photo.jpg", "missing.jpg"}
FileNames == {<<"wedding_photos/photo1.jpg">>, <<"photo2.jpg">>}
Expirations == {DefaultExpiration, 60}

PhotoNames == {<<"photo1.jpg">>, <<"photo2.jpg">>}
PhotoLists == SeqsUpTo(PhotoNames, MaxPhotos)

\* per position of photo_list: what the asset call does, and what the
\* thumbnail call does when the code gets to it
\* (the thumbnail call is made only after an asset call that completed, so
\* one thumbnail outcome is enough beside a failing asset call)
PhotoOutcomes ==
    {<<"ok", t>> : t \in Outcomes} \cup {<<a, "ok">> : a \in Outcomes \ {"ok"}}

Wedding001 == <<"w", "e", "d", "d", "i", "n", "g", "_", "0", "0", "1">>

\* every prefix and suffix of 'wedding_001', and every short id over g, G, 1
EventIds ==
    {SubSeq(Wedding001, 1, k) : k \in 0..Len(Wedding001)}
      \cup {SubSeq(Wedding001, k, Len(Wedding001)) : k \in 1..Len(Wedding001)}
      \cup SeqsUpTo({"g", "G", "1"}, MaxIdLen)

LocalNumber == <<"9", "8", "7", "6", "5", "4", "3", "2", "1", "0">>

\* a prefix over +, 9, 1, alone or in front of a ten-digit local number
PhoneNumbers ==
    {p \o t : p \in SeqsUpTo({"+", "9", "1"}, MaxPrefixLen), t \in {<<>>, LocalNumber}}

BookingDetails ==
    { None,
      [tag |-> "dict", v |-> <<>>],
      [tag |-> "dict", v |-> [client_email |-> "client@example.com",
                              photographer_name |-> "Rajesh Kumar",
                              service_type |-> "Wedding Photography",
                              event_date |-> "2024-03-15",
                              location |-> "Mumbai, Maharashtra"]] }

GalleryInfos ==
    { None,
      CreatePhotoGallery(DefaultBucket, Wedding001, <<>>, <<>>).ret.value,
      CreatePhotoGallery(DefaultBucket, Wedding001, <<<<"photo1.jpg">>>>,
                         <<<<"ok", "ok">>>>).ret.value }

-----------------------------------------------------------------------------
(* One invocation of a gateway method of an initialised AWSIntegration *)

Finish(r) ==
    /\ ret' = r.ret
    /\ log' = r.log
    /\ UNCHANGED <<bucket_name, call, webVars>>

upload_photo ==
    /\ call.op = "upload_photo" /\ ret.kind = "pending"
    /\ \E outcome \in UploadOutcomes(call.file_path) :
          LET r == UploadPhoto(bucket_name, call.file_path, call.file_name,
                               call.metadata, outcome)
          IN  Finish(r) /\ s3_objects' = s3_objects \cup r.stored

generate_presigned_url ==
    /\ call.op = "generate_presigned_url" /\ ret.kind = "pending"
    /\ \E outcome \in Outcomes :
          Finish(GeneratePresignedUrl(bucket_name, call.file_name,
                                      call.expiration, outcome))
    /\ UNCHANGED s3_objects

create_photo_gallery ==
    /\ call.op = "create_photo_gallery" /\ ret.kind = "pending"
    /\ \E outcomes \in [1..Len(call.photo_list) -> PhotoOutcomes] :
          Finish(CreatePhotoGallery(bucket_name, call.event_id,
                                    call.photo_list, outcomes))
    /\ UNCHANGED s3_objects

send_notification_email ==
    /\ call.op = "send_notification_email" /\ ret.kind = "pending"
    /\ \E outcome \in Outcomes :
          Finish(SendNotificationEmail(call.recipient_email, call.subject,
                                       call.message, call.sender_email, outcome))
    /\ UNCHANGED s3_objects

send_booking_confirmation ==
    /\ call.op = "send_booking_confirmation" /\ ret.kind = "pending"
    /\ \E outcome \in Outcomes :
          Finish(SendBookingConfirmation(call.booking_details, outcome))
    /\ UNCHANGED s3_objects

send_gallery_ready_notification ==
    /\ call.op = "send_gallery_ready_notification" /\ ret.kind = "pending"
    /\ \E outcome \in Outcomes :
          Finish(SendGalleryReadyNotification(call.client_email,
                                              call.gallery_info, outcome))
    /\ UNCHANGED s3_objects

send_sms_notification ==
    /\ call.op = "send_sms_notification" /\ ret.kind = "pending"
    /\ \E outcome \in Outcomes :
          Finish(SendSmsNotification(call.phone_number, call.message, outcome))
    /\ UNCHANGED s3_objects

\* __init__ has run; the caller has chosen a method and its arguments
AwsInit ==
    /\ bucket_name \in {BucketOf(env) : env \in Environments}
    /\ s3_objects \in SUBSET FileNames
    /\ ret = Pending
    /\ log = <<>>
    /\ \/ call \in [op : {"upload_photo"}, file_path : FilePaths,
                    file_name : FileNames, metadata : Metadatas]
       \/ call \in [op : {"generate_presigned_url"}, file_name : FileNames,
                    expiration : Expirations]
       \/ call \in [op : {"create_photo_gallery"}, event_id : EventIds,
                    photo_list : PhotoLists]
       \/ call \in [op : {"send_notification_email"},
                    recipient_email : {"client@example.com"},
                    subject : {<<"Subject">>}, message : {"<p>Hello</p>"},
                    sender_email : {DefaultSender, <<"studio@capturemoments.in">>}]
       \/ call \in [op : {"send_booking_confirmation"},
                    booking_details : BookingDetails]
       \/ call \in [op : {"send_gallery_ready_notification"},
                    client_email : {"client@example.com"},
                    gallery_info : GalleryInfos]
       \/ call \in [op : {"send_sms_notification"}, phone_number : PhoneNumbers,
                    message : {"Your booking is confirmed!"}]

Init == WebInit /\ AwsInit

Next ==
    \/ upload_photo
    \/ generate_presigned_url
    \/ create_photo_gallery
    \/ send_notification_email
    \/ send_booking_confirmation
    \/ send_gallery_ready_notification
    \/ send_sms_notification

Spec == Init /\ [][Next]_vars

-----------------------------------------------------------------------------
(* Claims about src/app.py, checked under WebSpec *)

IsLoginPost(r) == r.route = "/login" /\ r.method = "POST"
IsLogoutGet(r) == r.route = "/logout" /\ r.method = "GET"
IsBookPost(r) == r.route = "/book" /\ r.method = "POST"

\* the request sequence holds a POST /login with no GET /logout after it
LoginNotFollowedByLogout ==
    \E i \in 1..Len(history) :
        /\ IsLoginPost(history[i])
        /\ \A j \in (i+1)..Len(history) : ~IsLogoutGet(history[j])

\* C1: after any sequence of GET/POST requests to the eight routes, the flag
\* home() reads is true exactly when the sequence holds a POST /login that no
\* later GET /logout follows; with no request served it is false, and a
\* GET / renders home.html with exactly that flag.
C1_SessionFlag ==
    /\ SessionGet(session) = LoginNotFollowedByLogout
    /\ (history = <<>>) => ~SessionGet(session)
    /\ (history # <<>> /\ history[Len(history)].route = "/"
                      /\ history[Len(history)].method = "GET")
          => /\ response.template = "home.html"
             /\ response.context["logged_in"] = LoginNotFollowedByLogout

\* C1 witness: a logout while anonymous, a login with a wrong password, then
\* GET / renders the flag as true.
C1_Witness ==
    /\ Len(history) = 3
    /\ IsLogoutGet(history[1])
    /\ IsLoginPost(history[2]) /\ history[2].form = "wrong-password"
    /\ history[3].route = "/" /\ history[3].method = "GET"
    /\ response.status = 200
    /\ response.context["logged_in"] = TRUE

BookPosts == {i \in 1..Len(history) : IsBookPost(history[i])}

\* C5: every POST /book adds one record with a fresh booking_id to the
\* Booking Store: after k POST /book requests the store holds k records with
\* pairwise distinct ids (the store is a set of records keyed by id).
C5_BookingStored ==
    /\ Cardinality(booking_store) = Cardinality(BookPosts)
    /\ \A a, b \in booking_store : a.booking_id = b.booking_id => a = b

-----------------------------------------------------------------------------
(* Claims about src/awsint.py, checked under Spec *)

Done(op) == call.op = op /\ ret.kind # "pending"

ClientCallFailed == \E j \in 1..Len(log) : log[j].outcome # "ok"

StorageMethods == {"upload_photo", "generate_presigned_url"}
NotificationMethods == {"send_notification_email", "send_booking_confirmation",
                        "send_gallery_ready_notification", "send_sms_notification"}

\* C2: no gateway method raises: whatever the client call does, the method
\* returns; when its client call failed (with ClientError or with any other
\* exception) a storage method returns None and a notification method False.
\* (create_photo_gallery makes its client calls through
\* generate_presigned_url; what it returns on their failure is C3 and C4.)
C2_NoExceptionPropagates ==
    ret.kind # "pending" =>
        /\ ret.kind = "return"
        /\ (call.op \in StorageMethods /\ ClientCallFailed) => ret.value.tag = "None"
        /\ (call.op \in NotificationMethods /\ ClientCallFailed) => ret.value = Bool(FALSE)

\* positions of photo_list, and the client calls made for a filename
Positions == 1..Len(call.photo_list)
AssetKey(photo) == <<"galleries/">> \o call.event_id \o <<"/">> \o photo
ThumbKey(photo) == <<"galleries/">> \o call.event_id \o <<"/", "thumbnails/">> \o photo
AssetCalls(photo) == {j \in 1..Len(log) : log[j].Key = AssetKey(photo)}
ThumbCalls(photo) == {j \in 1..Len(log) : log[j].Key = ThumbKey(photo)}

\* the asset URL of the filename was asked for, and no such call succeeded
AssetIssuanceFailed(photo) ==
    /\ AssetCalls(photo) # {}
    /\ \A j \in AssetCalls(photo) : log[j].outcome # "ok"

AssetIssuanceSucceeded(photo) ==
    \E j \in AssetCalls(photo) : log[j].outcome = "ok"

ThumbIssuanceFailed(photo) ==
    \E j \in ThumbCalls(photo) : log[j].outcome # "ok"

Filenames(photos) == {photos[k].filename : k \in 1..Len(photos)}
InputNames == {call.photo_list[i] : i \in Positions}

\* C3: when the URL issuance for a filename of the N given fails,
\* create_photo_gallery still returns a GalleryRecord (not None) with
\* photo_count < N, without the failing filename, and with every filename
\* whose issuance succeeded.
C3_PartialGalleryOnFailure ==
    (Done("create_photo_gallery") /\ \E f \in InputNames : AssetIssuanceFailed(f)) =>
        /\ ret.kind = "return"
        /\ ret.value.tag = "dict"
        /\ ret.value.photo_count < Len(call.photo_list)
        /\ \A f \in InputNames :
              /\ AssetIssuanceFailed(f) => f \notin Filenames(ret.value.photos)
              /\ AssetIssuanceSucceeded(f) => f \in Filenames(ret.value.photos)

GalleryReturned ==
    Done("create_photo_gallery") /\ ret.kind = "return" /\ ret.value.tag = "dict"

\* C4 as stated: a filename whose asset URL or thumbnail URL failed is not in
\* the returned photos; every entry has a non-null url and thumbnail_url.
C4_AnyUrlFailureOmits ==
    GalleryReturned =>
        /\ \A f \in InputNames :
              (AssetIssuanceFailed(f) \/ ThumbIssuanceFailed(f))
                  => f \notin Filenames(ret.value.photos)
        /\ \A k \in 1..Len(ret.value.photos) :
              /\ ret.value.photos[k].url.tag # "None"
              /\ ret.value.photos[k].thumbnail_url.tag # "None"

\* C4 amended: in a returned gallery a filename whose asset URL failed is not
\* in photos and every entry has a non-null url, signed for its asset key;
\* the thumbnail URL is not tested: an entry's thumbnail_url is the signed
\* thumbnail URL or None, and it is None only if a thumbnail issuance for
\* that filename failed with ClientError.
C4_AssetFailureOmits ==
    GalleryReturned =>
        /\ \A f \in InputNames :
              AssetIssuanceFailed(f) => f \notin Filenames(ret.value.photos)
        /\ \A k \in 1..Len(ret.value.photos) :
              LET e == ret.value.photos[k]
              IN  /\ e.url.tag = "url"
                  /\ e.url.key = AssetKey(e.filename)
                  /\ e.thumbnail_url.tag \in {"url", "None"}
                  /\ e.thumbnail_url.tag = "url" => e.thumbnail_url.key = ThumbKey(e.filename)
                  /\ e.thumbnail_url.tag = "None" =>
                        \E j \in ThumbCalls(e.filename) : log[j].outcome = "ClientError"

\* C4 witness: of two filenames one is omitted for its asset URL, the other
\* is kept although its thumbnail URL failed.
C4_Witness ==
    /\ GalleryReturned
    /\ Len(call.photo_list) = 2
    /\ ret.value.photo_count = 1
    /\ AssetIssuanceFailed(call.photo_list[1])
    /\ ret.value.photos[1].filename = call.photo_list[2]
    /\ ret.value.photos[1].thumbnail_url.tag = "None"

Sent == log[1].PhoneNumber

SmsPublished == Done("send_sms_notification") /\ Len(log) = 1

IsLocalNumber(p) ==
    Len(p) = 10 /\ \A i \in 1..Len(p) :
        p[i] \in {"0", "1", "2", "3", "4", "5", "6", "7", "8", "9"}

\* a '+', then digits: a number that carries a country code
HasCountryCode(p) ==
    /\ Len(p) > 10
    /\ p[1] = "+"
    /\ \A i \in 2..Len(p) :
          p[i] \in {"0", "1", "2", "3", "4", "5", "6", "7", "8", "9"}

\* C6 as stated: the number published carries '+91' exactly once as prefix; a
\* ten-digit local number is sent as '+91' and the number; a number that is
\* already prefixed with a country code is sent unchanged.
C6_CountryCodeOnce ==
    SmsPublished =>
        /\ StartsWith(Sent, <<"+", "9", "1">>)
        /\ ~StartsWith(SubSeq(Sent, 4, Len(Sent)), <<"+", "9", "1">>)
        /\ IsLocalNumber(call.phone_number)
              => Sent = <<"+", "9", "1">> \o call.phone_number
        /\ HasCountryCode(call.phone_number) => Sent = call.phone_number

\* C6 amended: the number published always starts with '+91'; a number that
\* does not start with '+91' (a ten-digit local number, but also a number with
\* another country code) is sent as '+91' followed by the number; a number
\* that already starts with '+91' is sent unchanged, whatever follows.
C6_PrefixedUnlessPlus91 ==
    SmsPublished =>
        LET p == call.phone_number
            has == Len(p) >= 3 /\ p[1] = "+" /\ p[2] = "9" /\ p[3] = "1"
        IN  /\ Len(Sent) >= 3 /\ Sent[1] = "+" /\ Sent[2] = "9" /\ Sent[3] = "1"
            /\ has => Sent = p
            /\ ~has => /\ Len(Sent) = Len(p) + 3
                       /\ \A i \in 1..Len(p) : Sent[i + 3] = p[i]
            /\ IsLocalNumber(p) => Sent = <<"+", "9", "1">> \o p

\* C6 witness: a number with another country code gets '+91' in front.
C6_Witness ==
    /\ SmsPublished
    /\ call.phone_number = <<"+", "1">> \o LocalNumber
    /\ Sent = <<"+", "9", "1", "+", "1">> \o LocalNumber

Min(a, b) == IF a <= b THEN a ELSE b

\* C7: the access_code of a returned gallery is 'CM' followed by the
\* upper-cased last six characters of event_id (all of it when it is
\* shorter), whatever the filename list and whichever issuances failed;
\* 'wedding_001' gives 'CMNG_001'.
C7_AccessCode ==
    GalleryReturned =>
        LET id == call.event_id
            code == ret.value.access_code
            k == Min(6, Len(id))
        IN  /\ Len(code) = 2 + k
            /\ code[1] = "C" /\ code[2] = "M"
            /\ \A i \in 1..k : code[2 + i] = UpperChar(id[Len(id) - k + i])
            /\ id = Wedding001
                  => code = <<"C", "M", "N", "G", "_", "0", "0", "1">>

\* C7 witness: the gallery of 'wedding_001' with a photo omitted.
C7_Witness ==
    /\ GalleryReturned
    /\ call.event_id = Wedding001
    /\ ret.value.photo_count < Len(call.photo_list)
    /\ ret.value.access_code = <<"C", "M", "N", "G", "_", "0", "0", "1">>

UploadSucceeded == Len(log) = 1 /\ log[1].api = "upload_file" /\ log[1].outcome = "ok"

\* C8: upload_photo never raises; with the local file missing it returns
\* None; when the upload call completes it returns
\* 'https://<bucket>.s3.ap-south-1.amazonaws.com/<key>', whatever the
\* metadata; and it returns a URL only if the upload call completed.
C8_UploadPhoto ==
    Done("upload_photo") =>
        /\ ret.kind = "return"
        /\ call.file_path \notin LocalFiles => ret.value.tag = "None"
        /\ UploadSucceeded =>
              /\ ret.value.tag = "str"
              /\ ret.value.v = <<"https://">> \o bucket_name
                                 \o <<".s3.", "ap-south-1", ".amazonaws.com/">>
                                 \o call.file_name
        /\ ret.value.tag # "None" => UploadSucceeded

\* C8 witness: an upload without metadata to a bucket named by the
\* environment returns the URL.
C8_Witness ==
    /\ Done("upload_photo")
    /\ call.metadata.tag = "None"
    /\ bucket_name = <<"custom-bucket">>
    /\ ret.value.tag = "str"
    /\ ret.value.v = <<"https://", "custom-bucket", ".s3.", "ap-south-1",
                       ".amazonaws.com/", "photo2.jpg">>

\* C9 as stated: for a key that is not in the bucket generate_presigned_url
\* returns None and does not raise; it returns a URL only for a key that is
\* in the bucket.
C9_NullForMissingKey ==
    Done("generate_presigned_url") =>
        /\ call.file_name \notin s3_objects
              => ret.kind = "return" /\ ret.value.tag = "None"
        /\ (ret.kind = "return" /\ ret.value.tag # "None")
              => call.file_name \in s3_objects

\* C9 amended: generate_presigned_url does not look at the bucket: whether or
\* not the key exists, it returns the URL signed for that bucket, key and
\* expiration when the signing call completes, and None when the signing
\* call raises ClientError; it returns None in no other case.
C9_NullOnClientError ==
    Done("generate_presigned_url") =>
        /\ Len(log) = 1
        /\ log[1].outcome = "ok" =>
              /\ ret.kind = "return" /\ ret.value.tag = "url"
              /\ ret.value.bucket = bucket_name
              /\ ret.value.key = call.file_name
              /\ ret.value.expires = call.expiration
        /\ log[1].outcome = "ClientError" =>
              ret.kind = "return" /\ ret.value.tag = "None"
        /\ (ret.kind = "return" /\ ret.value.tag = "None")
              => log[1].outcome = "ClientError"

\* C9 witness: a URL is returned for a key that is not in the bucket.
C9_Witness ==
    /\ Done("generate_presigned_url")
    /\ call.file_name \notin s3_objects
    /\ call.expiration = 60
    /\ ret.kind = "return" /\ ret.value.tag = "url"

IsThumbCall(j) == log[j].Key[Len(log[j].Key) - 1] = "thumbnails/"
AssetCallsUpTo(j) == {i \in 1..j : ~IsThumbCall(i)}

\* C10: one invocation makes each client call at most once, whether it
\* succeeds or fails: at most one upload_file, one send_email, one publish,
\* one signing call for generate_presigned_url; create_photo_gallery asks for
\* the asset URLs of the filenames in order, once per position, and for a
\* thumbnail URL only right after that position's asset URL was issued, so at
\* most two signing calls per position.
C10_NoRetry ==
    ret.kind # "pending" =>
        /\ call.op = "upload_photo" =>
              Len(log) <= 1 /\ \A j \in 1..Len(log) : log[j].api = "upload_file"
        /\ call.op \in {"send_notification_email", "send_booking_confirmation",
                        "send_gallery_ready_notification"} =>
              Len(log) <= 1 /\ \A j \in 1..Len(log) : log[j].api = "send_email"
        /\ call.op = "send_sms_notification" =>
              Len(log) <= 1 /\ \A j \in 1..Len(log) : log[j].api = "publish"
        /\ call.op = "generate_presigned_url" => Len(log) <= 1
        /\ call.op = "create_photo_gallery" =>
              /\ Len(log) <= 2 * Len(call.photo_list)
              /\ \A j \in 1..Len(log) :
                    LET n == Cardinality(AssetCallsUpTo(j))
                    IN  /\ log[j].api = "generate_presigned_url"
                        /\ n \in 1..Len(call.photo_list)
                        /\ ~IsThumbCall(j) => log[j].Key = AssetKey(call.photo_list[n])
                        /\ IsThumbCall(j) =>
                              /\ ~IsThumbCall(j - 1)
                              /\ log[j - 1].outcome = "ok"
                              /\ log[j].Key = ThumbKey(call.photo_list[n])

\* C10 witness: an email whose send failed was sent once, and False returned.
C10_Witness ==
    /\ Done("send_notification_email")
    /\ Len(log) = 1
    /\ log[1].outcome = "ClientError"
    /\ ret.value = Bool(FALSE)

\* the asset signing calls of the invocation that completed
IssuedAssetCalls == {j \in 1..Len(log) : ~IsThumbCall(j) /\ log[j].outcome = "ok"}

\* strictly increasing maps from the entries of photos to positions of the input
Embeddings(n, m) ==
    {f \in [1..n -> 1..m] : \A a, b \in 1..n : a < b => f[a] < f[b]}

\* C11: in every gallery create_photo_gallery returns, photo_count is the
\* length of photos and at most the length of photo_list; the filenames of
\* photos are a subsequence of photo_list in the same order, one entry per
\* position whose asset URL was issued (so a filename given twice is kept
\* twice); and an empty photo_list gives a gallery, not None, with
\* photo_count 0.
C11_GalleryShape ==
    /\ GalleryReturned =>
          LET photos == ret.value.photos
          IN  /\ ret.value.photo_count = Len(photos)
              /\ ret.value.photo_count <= Len(call.photo_list)
              /\ ret.value.photo_count = Cardinality(IssuedAssetCalls)
              /\ \E f \in Embeddings(Len(photos), Len(call.photo_list)) :
                    \A k \in 1..Len(photos) :
                        photos[k].filename = call.photo_list[f[k]]
    /\ (Done("create_photo_gallery") /\ call.photo_list = <<>>) =>
          /\ ret.kind = "return"
          /\ ret.value.tag = "dict"
          /\ ret.value.photo_count = 0
          /\ ret.value.photos = <<>>

\* C11 witness: a filename given twice is in photos twice.
C11_Witness ==
    /\ GalleryReturned
    /\ Len(call.photo_list) = 2
    /\ call.photo_list[1] = call.photo_list[2]
    /\ ret.value.photo_count = 2
    /\ ret.value.photos[1].filename = ret.value.photos[2].filename

=============================================================================
